---- MODULE Spec2Model ----
(***************************************************************************)
(* Live-room coordinator of WorkReflect-backend (src/routes/roomRoutes.js) *)
(*                                                                         *)
(* State: the module-level Map activeRooms, the pending setTimeout         *)
(* callbacks scheduled by create-room, the wall clock (Date.now(), ms),    *)
(* the process environment read by the token route, and the close          *)
(* handler between its map lookup and its map delete.  Each route handler  *)
(* body is synchronous and runs to completion on the event loop, so it is  *)
(* one action; RaceSpec runs the close handler in two steps to check that. *)
(* `last` records the most recent                                          *)
(* request together with the response sent for it; `hist` counts, per room *)
(* id, the creations, successful closes and effective evictions.           *)
(***************************************************************************)
EXTENDS Integers, Sequences, FiniteSets, Bags, TLC

VARIABLES activeRooms, timers, now, env, closers, last, hist

vars == <<activeRooms, timers, now, env, closers, last, hist>>

(* ------------------------------ bounds --------------------------------- *)
\* successful create-room calls in one run
MaxCreates == 2
\* successful create-room calls in one run of TokenSpec
MaxTokenCreates == 1

(* ------------------------- program constants --------------------------- *)
\* setTimeout(..., 4 * 60 * 60 * 1000)
RETENTION_MS == 4 * 60 * 60 * 1000
\* generateToken04(appId, userId, serverSecret, 3600)
TOKEN_LIFETIME_S == 3600
\* serverSecret.length !== 32
SECRET_LEN == 32

(* ------------------------------ callers --------------------------------- *)
\* req.user as loaded by authMiddleware: a User document.  plan is one of the
\* schema's values or missing (documents written before the field existed).
NoPlan == "<undefined>"

Users ==
    { [id |-> "u1", name |-> "Ana",  organization |-> "orgA", plan |-> "pro"],
      [id |-> "u2", name |-> "Ben",  organization |-> "orgB", plan |-> "enterprise"],
      [id |-> "u3", name |-> "Cleo", organization |-> "orgA", plan |-> "free"],
      [id |-> "u4", name |-> "Dev",  organization |-> "orgB", plan |-> NoPlan] }

\* user.plan === "free" || !user.plan
PremiumRequired(user) == user.plan = "free" \/ user.plan = NoPlan

(* ------------------------------ room ids -------------------------------- *)
\* `room_${Date.now()}_${Math.random().toString(36).slice(2, 7)}`: the pair of
\* the clock reading and the random suffix determines the string.
Suffixes == {"k3f9a", "x0b7q"}

MakeRoomId(t, sfx) == [t |-> t, sfx |-> sfx]

\* a request without roomId (undefined or ""), and an id no create ever made
NoRoomId == [t |-> -1, sfx |-> ""]
UnknownRoomId == [t |-> -2, sfx |-> "zzzzz"]

(* --------------------------- request inputs ----------------------------- *)
\* req.body.title: "" stands for a missing or empty title (both falsy)
Titles == {"", "Sprint Retro"}
\* req.body.type: undefined takes the destructuring default
NoType == "<undefined>"
Types == {NoType, "hologram"}

(* -------------------------- process environment ------------------------- *)
\* process.env.ZEGO_APP_ID and process.env.ZEGO_SERVER_SECRET; the secret of
\* the environment is ASCII and given by its length (0 stands for an unset or
\* empty variable).
NoEnv == "<undefined>"
AppIdValues == {NoEnv, "0", "912345"}
SecretLengths == {0, 16, 32}

\* parseInt(s, 10) on the values above; NaN is represented by 0 with nan set
ParseInt(s) ==
    CASE s = NoEnv    -> [type |-> "number", nan |-> TRUE,  n |-> 0, half |-> FALSE]
      [] s = "0"      -> [type |-> "number", nan |-> FALSE, n |-> 0, half |-> FALSE]
      [] s = "912345" -> [type |-> "number", nan |-> FALSE, n |-> 912345, half |-> FALSE]

\* !appId for a number: NaN and 0 are falsy
FalsyNumber(p) == p.nan \/ p.n = 0

(* ------------------------------ TokenCodec ------------------------------ *)
\* JavaScript values as generateToken04 can be handed them.  A number is an
\* integer n, n + 0.5 (half), or NaN; a secret string is given by its length
\* in UTF-16 code units (`.length`) and in UTF-8 bytes (Buffer.from).
JsUndefined == [type |-> "undefined"]
JsNumber(n) == [type |-> "number", nan |-> FALSE, n |-> n, half |-> FALSE]
JsHalf(n) == [type |-> "number", nan |-> FALSE, n |-> n, half |-> TRUE]
JsNaN == [type |-> "number", nan |-> TRUE, n |-> 0, half |-> FALSE]
JsString(s) == [type |-> "string", s |-> s]
JsSecret(chars, bytes) == [type |-> "secret", chars |-> chars, bytes |-> bytes]

\* !v
Falsy(v) ==
    CASE v.type = "undefined" -> TRUE
      [] v.type = "number"    -> v.nan \/ (v.n = 0 /\ ~v.half)
      [] v.type = "string"    -> v.s = ""
      [] v.type = "secret"    -> v.chars = 0

\* createTime + effectiveTimeInSeconds for an integer createTime
PlusNumber(createTime, v) ==
    IF v.type # "number" \/ v.nan THEN JsNaN
    ELSE [type |-> "number", nan |-> FALSE, n |-> createTime + v.n, half |-> v.half]

\* the UTF-8 bytes of the strings of this model (all ASCII, none with a
\* character that JSON.stringify escapes)
Utf8(s) ==
    CASE s = ""       -> << >>
      [] s = "u1"     -> <<117, 49>>
      [] s = "u2"     -> <<117, 50>>
      [] s = "u3"     -> <<117, 51>>
      [] s = "u4"     -> <<117, 52>>
      [] s = "room=1" -> <<114, 111, 111, 109, 61, 49>>

\* the decimal digits of a natural number, as character codes
RECURSIVE Digits(_)
Digits(n) == IF n < 10 THEN <<48 + n>> ELSE Digits(n \div 10) \o <<48 + (n % 10)>>

\* the JSON text of a number: NaN is written null
NumberText(v) ==
    IF v.nan THEN <<110, 117, 108, 108>>
    ELSE (IF v.n < 0 THEN <<45>> \o Digits(-v.n) ELSE Digits(v.n))
            \o (IF v.half THEN <<46, 53>> ELSE << >>)

\* JSON.stringify(tokenInfo), the keys in the order of lines 37-42:
\* {"app_id":A,"user_id":"U","nonce":N,"ctime":C,"expire":E,"payload":"P"}
JsonStringify(tokenInfo) ==
    <<123, 34, 97, 112, 112, 95, 105, 100, 34, 58>> \o NumberText(tokenInfo.app_id)
      \o <<44, 34, 117, 115, 101, 114, 95, 105, 100, 34, 58, 34>> \o Utf8(tokenInfo.user_id)
      \o <<34, 44, 34, 110, 111, 110, 99, 101, 34, 58>> \o NumberText(JsNumber(tokenInfo.nonce))
      \o <<44, 34, 99, 116, 105, 109, 101, 34, 58>> \o NumberText(JsNumber(tokenInfo.ctime))
      \o <<44, 34, 101, 120, 112, 105, 114, 101, 34, 58>> \o NumberText(tokenInfo.expire)
      \o <<44, 34, 112, 97, 121, 108, 111, 97, 100, 34, 58, 34>> \o Utf8(tokenInfo.payload)
      \o <<34, 125>>

\* makeRandomIv(): 16 characters, each chars[Math.floor(Math.random() * 36)],
\* as character codes.  rolls are the 16 values of the floor, each in 0..35.
IV_CHARS == 16
IvAlphabet ==
    <<48, 49, 50, 51, 52, 53, 54, 55, 56, 57,
      97, 98, 99, 100, 101, 102, 103, 104, 105, 106, 107, 108, 109,
      110, 111, 112, 113, 114, 115, 116, 117, 118, 119, 120, 121, 122>>

\* makeRandomIv over the alphabet 0-9A-Z
MakeRandomIvUpperCase(rolls) ==
    [i \in 1..IV_CHARS |-> IF rolls[i] < 10 THEN 48 + rolls[i] ELSE 55 + rolls[i]]

MakeRandomIv(rolls) == [i \in 1..IV_CHARS |-> IvAlphabet[rolls[i] + 1]]

\* two of the 36^16 outcomes: "0123456789abcdef" and sixteen times "z"
IvRolls == { [i \in 1..IV_CHARS |-> i - 1], [i \in 1..IV_CHARS |-> 35] }
IVs == { MakeRandomIv(rolls) : rolls \in IvRolls }
\* Math.ceil((-2147483648 + 4294967295) * Math.random()), Math.random() in [0,1)
Nonces == {0, 2147483647}

\* "aes-256-cbc": 32-byte key, 16-byte blocks
AES_KEY_BYTES == 32
AES_BLOCK == 16

\* Byte i of the key that Buffer.from(key) gives.  The secrets of this model
\* are told apart by their lengths only, so the bytes are a function of them.
KeyByte(key, i) == (7 * key.bytes + 13 * i) % 256

\* the padding cipher.final() adds: 1 to 16 bytes, each holding their number
Pkcs7Pad(bytes) ==
    LET p == AES_BLOCK - (Len(bytes) % AES_BLOCK)
    IN  bytes \o [i \in 1..p |-> p]

\* Cipher-block chaining: every block is added to the cipher block before it
\* (the IV for the first) and then goes through the keyed block permutation.
\* The permutation of AES is stood for by a byte-wise addition of the key.
\* CbcBlocks gives the cipher from block k on, prev being the block before.
RECURSIVE CbcBlocks(_, _, _, _)
CbcBlocks(padded, key, prev, k) ==
    IF AES_BLOCK * k >= Len(padded) THEN << >>
    ELSE LET block == [r \in 1..AES_BLOCK |->
                          (padded[AES_BLOCK * k + r] + prev[r] + KeyByte(key, r)) % 256]
         IN  block \o CbcBlocks(padded, key, block, k + 1)

CbcEncrypt(padded, key, iv) == CbcBlocks(padded, key, iv, 0)

\* aesEncrypt(plainText, key, iv): createCipheriv rejects a key that is not
\* 32 bytes long and an IV that is not 16 bytes long; the ciphertext is the
\* padded plaintext, chained
AesEncrypt(plainText, key, iv) ==
    IF key.bytes # AES_KEY_BYTES \/ Len(iv) # AES_BLOCK
    THEN [threw |-> TRUE, error |-> "Invalid key length"]
    ELSE [threw |-> FALSE, bytes |-> CbcEncrypt(Pkcs7Pad(plainText), key, iv)]

\* buf.writeBigInt64BE(BigInt(n)): two's complement, most significant byte
\* first; the numbers written here are below 2^31 in magnitude, so the upper
\* four bytes are the sign extension
WriteBigInt64BE(n) ==
    LET m == IF n < 0 THEN -(n + 1) ELSE n
        low == <<(m \div 16777216) % 256, (m \div 65536) % 256, (m \div 256) % 256, m % 256>>
    IN  IF n < 0
        THEN <<255, 255, 255, 255>> \o [i \in 1..4 |-> 255 - low[i]]
        ELSE <<0, 0, 0, 0>> \o low

\* buf.writeUInt16BE(n), 0 <= n <= 65535
WriteUInt16BE(n) == <<(n \div 256) % 256, n % 256>>

\* the base64 alphabet, and the padding character
Base64Chars ==
    << "A", "B", "C", "D", "E", "F", "G", "H", "I", "J", "K", "L", "M", "N", "O", "P",
       "Q", "R", "S", "T", "U", "V", "W", "X", "Y", "Z", "a", "b", "c", "d", "e", "f",
       "g", "h", "i", "j", "k", "l", "m", "n", "o", "p", "q", "r", "s", "t", "u", "v",
       "w", "x", "y", "z", "0", "1", "2", "3", "4", "5", "6", "7", "8", "9", "+", "/" >>
Base64Pad == "="

\* buf.toString("base64"): three bytes make four characters, the last group
\* is padded with "="
ToBase64(buf) ==
    LET n == Len(buf)
        at(i) == IF i <= n THEN buf[i] ELSE 0
    IN  [j \in 1..(4 * ((n + 2) \div 3)) |->
            LET g == (j - 1) \div 4
                k == (j - 1) % 4
                b0 == at(3 * g + 1)
                b1 == at(3 * g + 2)
                b2 == at(3 * g + 3)
            IN  IF (k = 2 /\ 3 * g + 2 > n) \/ (k = 3 /\ 3 * g + 3 > n)
                THEN Base64Pad
                ELSE Base64Chars[1 + (CASE k = 0 -> b0 \div 4
                                        [] k = 1 -> (b0 % 4) * 16 + b1 \div 16
                                        [] k = 2 -> (b1 % 16) * 4 + b2 \div 64
                                        [] k = 3 -> b2 % 64)]]

\* the envelope of lines 55-64 with the lengths after the bytes they count
PackEnvelopeLengthsLast(expireTime, ivBuf, encryptedBuf) ==
    WriteBigInt64BE(expireTime) \o ivBuf \o WriteUInt16BE(Len(ivBuf))
        \o encryptedBuf \o WriteUInt16BE(Len(encryptedBuf))

\* lines 55-64: expire, iv length, iv, cipher length, cipher
PackEnvelope(expireTime, ivBuf, encryptedBuf) ==
    WriteBigInt64BE(expireTime) \o WriteUInt16BE(Len(ivBuf)) \o ivBuf
        \o WriteUInt16BE(Len(encryptedBuf)) \o encryptedBuf

\* what a call that throws yields: the error, and how far the call got
Thrown(name, error, ivDrawn, encrypted) ==
    [threw |-> TRUE, name |-> name, error |-> error,
     ivDrawn |-> ivDrawn, encrypted |-> encrypted]

\* generateToken04 writing the creation time, not the expiry, at the front of
\* the envelope
GenerateToken04PacksCreateTime(appId, userId, serverSecret, effectiveTimeInSeconds, payload, nowMs, nonce, iv) ==
    IF Falsy(appId) \/ appId.type # "number"
    THEN Thrown("Error", "appId must be a number", FALSE, FALSE)
    ELSE IF Falsy(userId) \/ userId.type # "string"
    THEN Thrown("Error", "userId must be a string", FALSE, FALSE)
    ELSE IF Falsy(serverSecret) \/ serverSecret.chars # SECRET_LEN
    THEN Thrown("Error", "serverSecret must be 32 chars", FALSE, FALSE)
    ELSE LET createTime == nowMs \div 1000
             expireTime == PlusNumber(createTime, effectiveTimeInSeconds)
             tokenInfo  == [app_id |-> appId, user_id |-> userId.s, nonce |-> nonce,
                            ctime |-> createTime, expire |-> expireTime,
                            payload |-> IF Falsy(payload) THEN "" ELSE payload.s]
             plainText  == JsonStringify(tokenInfo)
             encrypted  == AesEncrypt(plainText, serverSecret, iv)
         IN  IF encrypted.threw
             THEN Thrown("RangeError", encrypted.error, TRUE, TRUE)
             ELSE IF expireTime.nan \/ expireTime.half
             THEN Thrown("RangeError", "cannot be converted to a BigInt", TRUE, TRUE)
             ELSE [threw |-> FALSE, ivDrawn |-> TRUE, encrypted |-> TRUE,
                   token |-> <<"0", "4">>
                             \o ToBase64(PackEnvelope(createTime, iv, encrypted.bytes))]

\* generateToken04(appId, userId, serverSecret, effectiveTimeInSeconds,
\* payload), with the clock reading and the two random draws as explicit
\* arguments.  The token is the sequence of its characters.
GenerateToken04(appId, userId, serverSecret, effectiveTimeInSeconds, payload, nowMs, nonce, iv) ==
    IF Falsy(appId) \/ appId.type # "number"
    THEN Thrown("Error", "appId must be a number", FALSE, FALSE)
    ELSE IF Falsy(userId) \/ userId.type # "string"
    THEN Thrown("Error", "userId must be a string", FALSE, FALSE)
    ELSE IF Falsy(serverSecret) \/ serverSecret.chars # SECRET_LEN
    THEN Thrown("Error", "serverSecret must be 32 chars", FALSE, FALSE)
    ELSE LET createTime == nowMs \div 1000
             expireTime == PlusNumber(createTime, effectiveTimeInSeconds)
             tokenInfo  == [app_id |-> appId, user_id |-> userId.s, nonce |-> nonce,
                            ctime |-> createTime, expire |-> expireTime,
                            payload |-> IF Falsy(payload) THEN "" ELSE payload.s]
             plainText  == JsonStringify(tokenInfo)
             encrypted  == AesEncrypt(plainText, serverSecret, iv)
         IN  IF encrypted.threw
             THEN Thrown("RangeError", encrypted.error, TRUE, TRUE)
             ELSE IF expireTime.nan \/ expireTime.half
             THEN Thrown("RangeError", "cannot be converted to a BigInt", TRUE, TRUE)
             ELSE [threw |-> FALSE, ivDrawn |-> TRUE, encrypted |-> TRUE,
                   token |-> <<"0", "4">>
                             \o ToBase64(PackEnvelope(expireTime.n, iv, encrypted.bytes))]

\* new Map()
EmptyMap == [x \in {} |-> x]

(* --------------------------- route handlers ----------------------------- *)
\* Each handler is a function of the registry, the caller and the request; it
\* yields the response (status, body), the registry afterwards, and whether
\* generateToken04 was called.

\* POST /token with the roomId check moved in front of the plan check
TokenRouteIdFirst(rooms, environ, user, roomId, nowMs, nonce, iv) ==
    IF roomId = NoRoomId
    THEN [status |-> 400, codec |-> FALSE, body |-> [error |-> "roomId is required"]]
    ELSE IF PremiumRequired(user)
    THEN [status |-> 403, codec |-> FALSE,
          body |-> [error |-> "premium_required",
                    message |-> "Live Rooms require a Pro subscription."]]
    ELSE [status |-> 200, codec |-> FALSE,
          body |-> [token |-> "ZEGO_NOT_CONFIGURED", userId |-> user.id,
                    userName |-> user.name, roomId |-> roomId,
                    appId |-> 0, demo |-> TRUE]]

\* POST /token with the demo branch taken on a missing appId only
TokenRouteAppIdOnly(rooms, environ, user, roomId, nowMs, nonce, iv) ==
    IF PremiumRequired(user)
    THEN [status |-> 403, codec |-> FALSE,
          body |-> [error |-> "premium_required",
                    message |-> "Live Rooms require a Pro subscription."]]
    ELSE IF roomId = NoRoomId
    THEN [status |-> 400, codec |-> FALSE, body |-> [error |-> "roomId is required"]]
    ELSE LET appId == ParseInt(environ.appId)
         IN  IF FalsyNumber(appId)
             THEN [status |-> 200, codec |-> FALSE,
                   body |-> [token |-> "ZEGO_NOT_CONFIGURED", userId |-> user.id,
                             userName |-> user.name, roomId |-> roomId,
                             appId |-> 0, demo |-> TRUE]]
             ELSE LET r == GenerateToken04(appId, JsString(user.id),
                                           JsSecret(environ.secretLen, environ.secretLen),
                                           JsNumber(TOKEN_LIFETIME_S), JsUndefined,
                                           nowMs, nonce, iv)
                  IN  IF r.threw
                      THEN [status |-> 500, codec |-> TRUE, body |-> [error |-> r.error]]
                      ELSE [status |-> 200, codec |-> TRUE,
                            body |-> [token |-> r.token, userId |-> user.id,
                                      userName |-> user.name, roomId |-> roomId,
                                      appId |-> appId.n, isHost |-> FALSE]]

\* POST /token reporting every caller of a stored room as its host
TokenRouteAnyoneHost(rooms, environ, user, roomId, nowMs, nonce, iv) ==
    IF PremiumRequired(user)
    THEN [status |-> 403, codec |-> FALSE,
          body |-> [error |-> "premium_required",
                    message |-> "Live Rooms require a Pro subscription."]]
    ELSE IF roomId = NoRoomId
    THEN [status |-> 400, codec |-> FALSE, body |-> [error |-> "roomId is required"]]
    ELSE LET appId == ParseInt(environ.appId)
             secretLen == environ.secretLen
         IN  IF FalsyNumber(appId) \/ secretLen = 0
             THEN [status |-> 200, codec |-> FALSE,
                   body |-> [token |-> "ZEGO_NOT_CONFIGURED", userId |-> user.id,
                             userName |-> user.name, roomId |-> roomId,
                             appId |-> 0, demo |-> TRUE]]
             ELSE LET r == GenerateToken04(appId, JsString(user.id),
                                           JsSecret(secretLen, secretLen),
                                           JsNumber(TOKEN_LIFETIME_S), JsUndefined,
                                           nowMs, nonce, iv)
                  IN  IF r.threw
                      THEN [status |-> 500, codec |-> TRUE, body |-> [error |-> r.error]]
                      ELSE [status |-> 200, codec |-> TRUE,
                            body |-> [token |-> r.token, userId |-> user.id,
                                      userName |-> user.name, roomId |-> roomId,
                                      appId |-> appId.n,
                                      isHost |-> roomId \in DOMAIN rooms]]

\* POST /token refusing an id that is not a session of the caller's
\* organization
TokenRouteChecksRegistry(rooms, environ, user, roomId, nowMs, nonce, iv) ==
    IF PremiumRequired(user)
    THEN [status |-> 403, codec |-> FALSE,
          body |-> [error |-> "premium_required",
                    message |-> "Live Rooms require a Pro subscription."]]
    ELSE IF roomId = NoRoomId
    THEN [status |-> 400, codec |-> FALSE, body |-> [error |-> "roomId is required"]]
    ELSE LET appId == ParseInt(environ.appId)
             secretLen == environ.secretLen
         IN  IF FalsyNumber(appId) \/ secretLen = 0
             THEN [status |-> 200, codec |-> FALSE,
                   body |-> [token |-> "ZEGO_NOT_CONFIGURED", userId |-> user.id,
                             userName |-> user.name, roomId |-> roomId,
                             appId |-> 0, demo |-> TRUE]]
             ELSE IF roomId \notin DOMAIN rooms
             THEN [status |-> 404, codec |-> FALSE, body |-> [error |-> "Room not found"]]
             ELSE IF rooms[roomId].organization # user.organization
             THEN [status |-> 403, codec |-> FALSE, body |-> [error |-> "forbidden"]]
             ELSE LET r == GenerateToken04(appId, JsString(user.id),
                                           JsSecret(secretLen, secretLen),
                                           JsNumber(TOKEN_LIFETIME_S), JsUndefined,
                                           nowMs, nonce, iv)
                  IN  IF r.threw
                      THEN [status |-> 500, codec |-> TRUE, body |-> [error |-> r.error]]
                      ELSE [status |-> 200, codec |-> TRUE,
                            body |-> [token |-> r.token, userId |-> user.id,
                                      userName |-> user.name, roomId |-> roomId,
                                      appId |-> appId.n,
                                      isHost |-> rooms[roomId].hostId = user.id]]

\* POST /token
TokenRoute(rooms, environ, user, roomId, nowMs, nonce, iv) ==
    IF PremiumRequired(user)
    THEN [status |-> 403, codec |-> FALSE,
          body |-> [error |-> "premium_required",
                    message |-> "Live Rooms require a Pro subscription."]]
    ELSE IF roomId = NoRoomId
    THEN [status |-> 400, codec |-> FALSE, body |-> [error |-> "roomId is required"]]
    ELSE LET appId == ParseInt(environ.appId)
             secretLen == environ.secretLen
         IN  IF FalsyNumber(appId) \/ secretLen = 0
             THEN [status |-> 200, codec |-> FALSE,
                   body |-> [token |-> "ZEGO_NOT_CONFIGURED", userId |-> user.id,
                             userName |-> user.name, roomId |-> roomId,
                             appId |-> 0, demo |-> TRUE]]
             ELSE LET r == GenerateToken04(appId, JsString(user.id),
                                           JsSecret(secretLen, secretLen),
                                           JsNumber(TOKEN_LIFETIME_S), JsUndefined,
                                           nowMs, nonce, iv)
                  IN  IF r.threw
                      THEN [status |-> 500, codec |-> TRUE, body |-> [error |-> r.error]]
                      ELSE [status |-> 200, codec |-> TRUE,
                            body |-> [token |-> r.token, userId |-> user.id,
                                      userName |-> user.name, roomId |-> roomId,
                                      appId |-> appId.n,
                                      isHost |-> IF roomId \in DOMAIN rooms
                                                 THEN rooms[roomId].hostId = user.id
                                                 ELSE FALSE]]

\* Map.prototype.set / delete on activeRooms
MapSet(rooms, k, v) == [x \in DOMAIN rooms \cup {k} |-> IF x = k THEN v ELSE rooms[x]]
MapDelete(rooms, k) == [x \in DOMAIN rooms \ {k} |-> rooms[x]]

\* the room object built by create-room
NewRoom(user, title, type, roomId, nowMs) ==
    [id |-> roomId, title |-> title,
     type |-> IF type = NoType THEN "audio" ELSE type,
     hostId |-> user.id, hostName |-> user.name,
     organization |-> user.organization,
     participants |-> 0, createdAt |-> nowMs, live |-> TRUE]

\* create-room gated on the plan "free" only: a missing plan passes
CreateRouteFreeOnly(rooms, user, title, type, nowMs, sfx) ==
    IF user.plan = "free"
    THEN [status |-> 403, created |-> FALSE, rooms |-> rooms,
          body |-> [error |-> "premium_required"]]
    ELSE IF title = ""
    THEN [status |-> 400, created |-> FALSE, rooms |-> rooms,
          body |-> [error |-> "title required"]]
    ELSE LET roomId == MakeRoomId(nowMs, sfx)
             room == NewRoom(user, title, type, roomId, nowMs)
         IN  [status |-> 200, created |-> TRUE, rooms |-> MapSet(rooms, roomId, room),
              body |-> room]

\* create-room without the title check
CreateRouteAnyTitle(rooms, user, title, type, nowMs, sfx) ==
    IF PremiumRequired(user)
    THEN [status |-> 403, created |-> FALSE, rooms |-> rooms,
          body |-> [error |-> "premium_required"]]
    ELSE LET roomId == MakeRoomId(nowMs, sfx)
             room == NewRoom(user, title, type, roomId, nowMs)
         IN  [status |-> 200, created |-> TRUE, rooms |-> MapSet(rooms, roomId, room),
              body |-> room]

\* POST /create-room; created tells whether the room was stored and its
\* eviction scheduled
CreateRoute(rooms, user, title, type, nowMs, sfx) ==
    IF PremiumRequired(user)
    THEN [status |-> 403, created |-> FALSE, rooms |-> rooms,
          body |-> [error |-> "premium_required"]]
    ELSE IF title = ""
    THEN [status |-> 400, created |-> FALSE, rooms |-> rooms,
          body |-> [error |-> "title required"]]
    ELSE LET roomId == MakeRoomId(nowMs, sfx)
             room == NewRoom(user, title, type, roomId, nowMs)
         IN  [status |-> 200, created |-> TRUE, rooms |-> MapSet(rooms, roomId, room),
              body |-> room]

\* create-room without the setTimeout call
ScheduleEvictionNever(pending, roomId, nowMs) == pending

\* create-room with a delay of four minutes instead of four hours
ScheduleEvictionEarly(pending, roomId, nowMs) ==
    Append(pending, [roomId |-> roomId, due |-> nowMs + 4 * 60 * 1000])

\* setTimeout(() => activeRooms.delete(roomId), 4 * 60 * 60 * 1000): timers of
\* one duration fire in the order they were scheduled
ScheduleEviction(pending, roomId, nowMs) ==
    Append(pending, [roomId |-> roomId, due |-> nowMs + RETENTION_MS])

\* GET /list without the organization test in the filter
ListRouteAllOrgs(rooms, user) ==
    [status |-> 200,
     body |-> [rooms |-> {rooms[k] : k \in {x \in DOMAIN rooms : rooms[x].live}}]]

\* GET /list behind the plan test of the other two routes
ListRouteGated(rooms, user) ==
    IF PremiumRequired(user)
    THEN [status |-> 403, body |-> [error |-> "premium_required"]]
    ELSE [status |-> 200,
          body |-> [rooms |-> {rooms[k] : k \in {x \in DOMAIN rooms :
                        rooms[x].organization = user.organization /\ rooms[x].live}}]]

\* GET /list; body.rooms is the set of the elements of the response array
ListRoute(rooms, user) ==
    [status |-> 200,
     body |-> [rooms |-> {rooms[k] : k \in {x \in DOMAIN rooms :
                   rooms[x].organization = user.organization /\ rooms[x].live}}]]

\* const room = activeRooms.get(roomId): the room, or undefined
NoRoom == [id |-> NoRoomId]
CloseLookupRoom(rooms, roomId) ==
    IF roomId \in DOMAIN rooms THEN rooms[roomId] ELSE NoRoom

\* close without the host check
CloseRouteAnyCaller(rooms, user, roomId, room) ==
    IF room = NoRoom
    THEN [status |-> 404, rooms |-> rooms, body |-> [error |-> "Room not found"]]
    ELSE [status |-> 200, rooms |-> MapDelete(rooms, roomId),
          body |-> [message |-> "Room closed"]]

\* close that empties the map (activeRooms.clear()) instead of deleting one key
CloseRouteClearsAll(rooms, user, roomId, room) ==
    IF room = NoRoom
    THEN [status |-> 404, rooms |-> rooms, body |-> [error |-> "Room not found"]]
    ELSE IF room.hostId # user.id
    THEN [status |-> 403, rooms |-> rooms,
          body |-> [error |-> "Only the host can close the room"]]
    ELSE [status |-> 200, rooms |-> EmptyMap, body |-> [message |-> "Room closed"]]

\* close without the existence check: deleting an absent key succeeds
CloseRouteAbsentOk(rooms, user, roomId, room) ==
    IF room # NoRoom /\ room.hostId # user.id
    THEN [status |-> 403, rooms |-> rooms,
          body |-> [error |-> "Only the host can close the room"]]
    ELSE [status |-> 200, rooms |-> MapDelete(rooms, roomId),
          body |-> [message |-> "Room closed"]]

\* DELETE /close/:roomId after the lookup: `room` is the handler's local
CloseRoute(rooms, user, roomId, room) ==
    IF room = NoRoom
    THEN [status |-> 404, rooms |-> rooms, body |-> [error |-> "Room not found"]]
    ELSE IF room.hostId # user.id
    THEN [status |-> 403, rooms |-> rooms,
          body |-> [error |-> "Only the host can close the room"]]
    ELSE [status |-> 200, rooms |-> MapDelete(rooms, roomId),
          body |-> [message |-> "Room closed"]]

\* an eviction callback that resets the registry when its room is gone
EvictionCallbackResets(rooms, roomId) ==
    IF roomId \in DOMAIN rooms THEN MapDelete(rooms, roomId) ELSE EmptyMap

\* the eviction callback: () => activeRooms.delete(roomId)
EvictionCallback(rooms, roomId) == MapDelete(rooms, roomId)

(* ------------------------------- state ---------------------------------- *)
NoRequest == [op |-> "none"]

Envs == [appId : AppIdValues, secretLen : SecretLengths]

\* the state of the module right after it is loaded
Boot ==
    /\ activeRooms = EmptyMap
    /\ timers = << >>
    /\ now = 0
    /\ closers = EmptyBag
    /\ last = [req |-> NoRequest, status |-> 0, body |-> [none |-> TRUE], codec |-> FALSE]
    /\ hist = EmptyMap

\* room ids a client can name: every id a create has returned, and one that
\* no create has returned
KnownRoomIds == DOMAIN hist \cup {UnknownRoomId}

RECURSIVE SumCreates(_, _)
SumCreates(h, ids) ==
    IF ids = {} THEN 0
    ELSE LET k == CHOOSE x \in ids : TRUE
         IN  h[k].creates + SumCreates(h, ids \ {k})

TotalCreates == SumCreates(hist, DOMAIN hist)

NoHist == [creates |-> 0, closes |-> 0, evicts |-> 0, hostId |-> "", organization |-> ""]
HistOf(h, id) == IF id \in DOMAIN h THEN h[id] ELSE NoHist

\* a close handler that awaits between its lookup and its delete
HandlerYields == FALSE

\* A handler body runs to completion on the event loop: the close handler has
\* no await between reading the map (line 164) and deleting from it (line
\* 169), so while it is between the two nothing else runs.
HandlerRunning == closers # EmptyBag

(* ------------------------------ actions --------------------------------- *)
\* The values a random draw can take: all of them where the code reaches the
\* draw, and a single arbitrary one (never used) where it does not.
Draws(reached, values) == IF reached THEN values ELSE {CHOOSE v \in values : TRUE}

\* POST /token counting the caller as a participant of the room
TokenCountsParticipant(user, roomId) ==
    /\ ~HandlerRunning
    /\ \E nonce \in Nonces, iv \in IVs :
          LET r == TokenRoute(activeRooms, env, user, roomId, now, nonce, iv)
          IN  last' = [req |-> [op |-> "token", user |-> user, roomId |-> roomId],
                       status |-> r.status, body |-> r.body, codec |-> r.codec]
    /\ activeRooms' = IF roomId \in DOMAIN activeRooms
                      THEN [activeRooms EXCEPT ![roomId].participants = 1]
                      ELSE activeRooms
    /\ UNCHANGED <<timers, now, env, closers, hist>>

\* POST /token
Token(user, roomId) ==
    /\ ~HandlerRunning
    /\ \E nonce \in Nonces, iv \in IVs :
          LET r == TokenRoute(activeRooms, env, user, roomId, now, nonce, iv)
          IN  last' = [req |-> [op |-> "token", user |-> user, roomId |-> roomId],
                       status |-> r.status, body |-> r.body, codec |-> r.codec]
    /\ UNCHANGED <<activeRooms, timers, now, env, closers, hist>>

\* POST /create-room
Create(user, title, type) ==
    LET any == CreateRoute(activeRooms, user, title, type, now,
                           CHOOSE x \in Suffixes : TRUE)
    IN  /\ ~HandlerRunning
        /\ any.created => TotalCreates < MaxCreates
        /\ \E sfx \in Draws(any.created, Suffixes) :
              LET r == CreateRoute(activeRooms, user, title, type, now, sfx)
                  roomId == MakeRoomId(now, sfx)
                  h == HistOf(hist, roomId)
              IN  /\ activeRooms' = r.rooms
                  /\ timers' = IF r.created THEN ScheduleEviction(timers, roomId, now)
                               ELSE timers
                  /\ hist' = IF r.created
                             THEN MapSet(hist, roomId,
                                         [h EXCEPT !.creates = @ + 1,
                                                   !.hostId = user.id,
                                                   !.organization = user.organization])
                             ELSE hist
                  /\ last' = [req |-> [op |-> "create", user |-> user,
                                       title |-> title, type |-> type],
                              status |-> r.status, body |-> r.body, codec |-> FALSE]
        /\ UNCHANGED <<now, env, closers>>

\* GET /list
List(user) ==
    LET r == ListRoute(activeRooms, user)
    IN  /\ ~HandlerRunning
        /\ last' = [req |-> [op |-> "list", user |-> user],
                    status |-> r.status, body |-> r.body, codec |-> FALSE]
        /\ UNCHANGED <<activeRooms, timers, now, env, closers, hist>>

\* what the close handler does to the registry, the history and `last` from
\* its local `room` on (lines 165-170)
CloseEffect(user, roomId, room) ==
    LET r == CloseRoute(activeRooms, user, roomId, room)
    IN  /\ activeRooms' = r.rooms
        /\ hist' = IF r.status = 200
                   THEN [hist EXCEPT ![roomId].closes = @ + 1]
                   ELSE hist
        /\ last' = [req |-> [op |-> "close", user |-> user, roomId |-> roomId],
                    status |-> r.status, body |-> r.body, codec |-> FALSE]

\* DELETE /close/:roomId: the whole handler, lines 163-170
Close(user, roomId) ==
    /\ ~HandlerRunning
    /\ CloseEffect(user, roomId, CloseLookupRoom(activeRooms, roomId))
    /\ UNCHANGED <<timers, now, env, closers>>

\* The same handler in two steps, for RaceSpec.
\* DELETE /close/:roomId, lines 163-164: the handler starts and reads the map
\* into its local `room`
CloseLookup(user, roomId) ==
    /\ ~HandlerRunning
    /\ closers' = closers (+) SetToBag({[user |-> user, roomId |-> roomId,
                                         room |-> CloseLookupRoom(activeRooms, roomId)]})
    /\ UNCHANGED <<activeRooms, timers, now, env, last, hist>>

\* DELETE /close/:roomId, lines 165-170: the checks on `room`, the delete and
\* the response
CloseFinish(c) ==
    /\ closers' = closers (-) SetToBag({c})
    /\ CloseEffect(c.user, c.roomId, c.room)
    /\ UNCHANGED <<timers, now, env>>

\* the oldest pending timer fires once its delay has passed
Evict ==
    /\ ~HandlerRunning
    /\ timers # << >>
    /\ Head(timers).due <= now
    /\ LET roomId == Head(timers).roomId
       IN  /\ activeRooms' = EvictionCallback(activeRooms, roomId)
           /\ hist' = IF roomId \in DOMAIN activeRooms
                      THEN [hist EXCEPT ![roomId].evicts = @ + 1]
                      ELSE hist
    /\ timers' = Tail(timers)
    /\ UNCHANGED <<now, env, closers, last>>

\* One millisecond passes after a create, so that the next create reads a
\* later Date.now().  The clock is read by create-room and by the token route
\* only, so other millisecond steps change nothing a handler sees.  A callback
\* that is due runs before the clock moves on.
Tick ==
    /\ timers # << >>
    /\ timers[Len(timers)].due = now + RETENTION_MS
    /\ Head(timers).due > now
    /\ TotalCreates < MaxCreates
    /\ now' = now + 1
    /\ UNCHANGED <<activeRooms, timers, env, closers, last, hist>>

\* time passes until the oldest pending timer is due
AdvanceToDue ==
    /\ timers # << >>
    /\ now < Head(timers).due
    /\ now' = Head(timers).due
    /\ UNCHANGED <<activeRooms, timers, env, closers, last, hist>>

(* --------------------------- specifications ----------------------------- *)
\* The registry: create, list, close, eviction and the clock.  The token
\* route writes nothing these read, and is left to TokenSpec, where the
\* session type varies as well.
Unconfigured == [appId |-> NoEnv, secretLen |-> 0]

Init == Boot /\ env = Unconfigured

Next ==
    \/ \E user \in Users, title \in Titles : Create(user, title, NoType)
    \/ \E user \in Users : List(user)
    \/ \E user \in Users, roomId \in KnownRoomIds : Close(user, roomId)
    \/ Evict
    \/ Tick
    \/ AdvanceToDue

Spec == Init /\ [][Next]_vars

\* The event loop runs a due timer callback, and time does not stop.
FairSpec == Spec /\ WF_vars(Evict) /\ WF_vars(AdvanceToDue)

\* Callers whose plan passes the premium gate
Hosts == {u \in Users : ~PremiumRequired(u)}

\* The close handler step by step: what Spec takes as one step is checked
\* here.  Sessions are created by entitled callers; anyone closes.  Time
\* passes from one timer to the next.
RaceNext ==
    \/ \E user \in Hosts : Create(user, "Sprint Retro", NoType)
    \/ \E user \in Users, roomId \in DOMAIN hist : CloseLookup(user, roomId)
    \/ \E c \in BagToSet(closers) : CloseFinish(c)
    \/ Evict
    \/ AdvanceToDue

RaceSpec == Init /\ [][RaceNext]_vars

\* Token issuance under every environment, over registries built by entitled
\* callers: sessions are created, closed by either of them and evicted.
\* Time passes from one timer to the next.  A token request is made after
\* every other step: the route writes `last` only, so a request that follows
\* another one is answered from the same registry, environment and clock.
TokenInit == Boot /\ env \in Envs

TokenNext ==
    \/ last.req.op # "token"
          /\ \E user \in Users, roomId \in KnownRoomIds \cup {NoRoomId} : Token(user, roomId)
    \/ TotalCreates < MaxTokenCreates
          /\ \E user \in Hosts, type \in Types : Create(user, "Sprint Retro", type)
    \/ \E user \in Hosts, roomId \in DOMAIN hist : Close(user, roomId)
    \/ Evict
    \/ AdvanceToDue

TokenSpec == TokenInit /\ [][TokenNext]_vars

\* generateToken04 on its own: the arguments of one call are drawn at the
\* start (any JavaScript value a caller can pass), and so is the clock; the
\* call then runs with its random draws.
AppIds == {JsNumber(912345), JsNumber(0), JsNumber(-5), JsHalf(1), JsNaN,
           JsString("912345"), JsUndefined}
UserIds == {JsString("u1"), JsString(""), JsNumber(42), JsUndefined}
Secrets == {JsUndefined, JsSecret(0, 0), JsSecret(16, 16), JsSecret(16, 32),
            JsSecret(32, 32), JsSecret(32, 64), JsSecret(33, 33)}
Lifetimes == {JsNumber(3600), JsNumber(1), JsNumber(0), JsNumber(-60), JsHalf(1),
              JsUndefined}
Payloads == {JsUndefined, JsString("room=1")}
CodecClock == {0, 999, 86400123}

CodecCalls ==
    [op : {"generateToken04"}, appId : AppIds, userId : UserIds,
     serverSecret : Secrets, effectiveTimeInSeconds : Lifetimes, payload : Payloads]

CodecInit ==
    /\ activeRooms = EmptyMap
    /\ timers = << >>
    /\ now \in CodecClock
    /\ env = Unconfigured
    /\ closers = EmptyBag
    /\ hist = EmptyMap
    /\ \E call \in CodecCalls :
          last = [req |-> call, status |-> 0, body |-> [none |-> TRUE], codec |-> FALSE]

\* the call of generateToken04 recorded in `last` runs
IssueToken ==
    LET q == last.req
        any == GenerateToken04(q.appId, q.userId, q.serverSecret,
                               q.effectiveTimeInSeconds, q.payload, now,
                               CHOOSE n \in Nonces : TRUE, CHOOSE v \in IVs : TRUE)
        drawn == ~any.threw \/ any.ivDrawn
    IN  /\ q.op = "generateToken04"
        /\ ~last.codec
        /\ \E nonce \in Draws(drawn, Nonces), iv \in Draws(drawn, IVs) :
              last' = [last EXCEPT
                          !.codec = TRUE,
                          !.body = GenerateToken04(q.appId, q.userId, q.serverSecret,
                                                   q.effectiveTimeInSeconds, q.payload,
                                                   now, nonce, iv)]
        /\ UNCHANGED <<activeRooms, timers, now, env, closers, hist>>

CodecNext == IssueToken

CodecSpec == CodecInit /\ [][CodecNext]_vars

\* Two calls of generateToken04 with the same arguments in the same second,
\* each with its own random draws.  The result of the first call is kept in
\* `prev` beside the result of the second.
IssueAgain ==
    LET q == last.req
    IN  /\ q.op = "generateToken04"
        /\ last.codec
        /\ "prev" \notin DOMAIN last
        /\ \E nonce \in Nonces, iv \in IVs :
              last' = [req |-> q, status |-> last.status, codec |-> TRUE,
                       body |-> GenerateToken04(q.appId, q.userId, q.serverSecret,
                                                q.effectiveTimeInSeconds, q.payload,
                                                now, nonce, iv),
                       prev |-> last.body]
        /\ UNCHANGED <<activeRooms, timers, now, env, closers, hist>>

ReissueNext == IssueToken \/ IssueAgain

ReissueSpec == CodecInit /\ [][ReissueNext]_vars

\* generateToken04 called on its own and through POST /token: the process
\* either runs one call of the codec with drawn arguments, or serves requests.
IssueInit == CodecInit \/ TokenInit

IssueNext ==
    \/ IssueToken
    \/ last.req.op # "generateToken04" /\ TokenNext

IssueSpec == IssueInit /\ [][IssueNext]_vars

(* ------------------------------- claims --------------------------------- *)
\* the sessions of the registry that belong to an organization
SessionsOf(org) ==
    {activeRooms[k] : k \in {x \in DOMAIN activeRooms : activeRooms[x].organization = org}}

\* the rooms a caller is sent by GET /list once the step is over
ListedAfter(user) == ListRoute(activeRooms', user).body.rooms

\* the step is the close handler run by `user` on `roomId`: the request is
\* the one `last` records after the step
ClosedBy(user, roomId) == last'.req.op = "close" /\ Close(user, roomId)

\* C1: a close by a caller who is not the session's host is answered 403
\* Forbidden and leaves the registry as it was: the session is still there
\* and is still listed for the callers of its organization.
C1_NonHostCloseForbidden ==
    [][LET user == last'.req.user
           roomId == last'.req.roomId
       IN  (/\ ClosedBy(user, roomId)
            /\ roomId \in DOMAIN activeRooms
            /\ activeRooms[roomId].hostId # user.id)
           => /\ last'.status = 403
              /\ activeRooms' = activeRooms
              /\ roomId \in DOMAIN activeRooms'
              /\ \A u \in Users :
                    u.organization = activeRooms[roomId].organization
                    => activeRooms[roomId] \in ListedAfter(u)]_vars

\* a non-host has just been refused and the session is still in the registry
C1_Witness ==
    /\ last.req.op = "close"
    /\ last.status = 403
    /\ last.req.roomId \in DOMAIN activeRooms
    /\ activeRooms[last.req.roomId].hostId # last.req.user.id

\* C2: a close by the host of a live session is answered 200 and removes that
\* session, and only that one, in the same step; it is no longer listed.
C2_HostCloseRemovesOnlyThat ==
    [][LET user == last'.req.user
           roomId == last'.req.roomId
       IN  (/\ ClosedBy(user, roomId)
            /\ roomId \in DOMAIN activeRooms
            /\ activeRooms[roomId].hostId = user.id)
           => /\ last'.status = 200
              /\ DOMAIN activeRooms' = DOMAIN activeRooms \ {roomId}
              /\ \A k \in DOMAIN activeRooms' : activeRooms'[k] = activeRooms[k]
              /\ \A u \in Users : \A r \in ListedAfter(u) : r.id # roomId]_vars

\* the host has just closed one session while another one stays in the registry
C2_Witness ==
    /\ last.req.op = "close"
    /\ last.status = 200
    /\ last.req.roomId \notin DOMAIN activeRooms
    /\ hist[last.req.roomId].closes = 1
    /\ activeRooms # EmptyMap

\* C3: a close of an id that is not in the registry (never created, already
\* closed, already evicted) is answered 404 Not Found whoever asks, the former
\* host included, and leaves the registry as it was.
C3_AbsentCloseNotFound ==
    [][LET user == last'.req.user
           roomId == last'.req.roomId
       IN  (ClosedBy(user, roomId) /\ roomId \notin DOMAIN activeRooms)
           => (last'.status = 404 /\ activeRooms' = activeRooms)]_vars

\* the former host has just been told Not Found for a session closed before
C3_Witness ==
    /\ last.req.op = "close"
    /\ last.status = 404
    /\ last.req.roomId \in DOMAIN hist
    /\ hist[last.req.roomId].closes >= 1
    /\ hist[last.req.roomId].hostId = last.req.user.id

\* C4: in every state the registry reaches by creates, closes and evictions,
\* GET /list returns to each caller exactly the sessions of the registry whose
\* organization is the caller's.
C4_ListIsOrganizationView ==
    \A user \in Users :
        ListRoute(activeRooms, user).body.rooms = SessionsOf(user.organization)

\* a caller has just listed and got a session of their organization, while the
\* registry also holds a session of another organization
C4_Witness ==
    /\ last.req.op = "list"
    /\ last.body.rooms = SessionsOf(last.req.user.organization)
    /\ last.body.rooms # {}
    /\ \E k \in DOMAIN activeRooms :
          activeRooms[k].organization # last.req.user.organization

\* the clock readings at which a create can run, and the ids it can make
CreationTimes ==
    {t + k * RETENTION_MS : t \in 0..(MaxCreates - 1), k \in 0..(MaxCreates - 1)}
AllRoomIds == {MakeRoomId(t, sfx) : t \in CreationTimes, sfx \in Suffixes}

\* every session of the registry has its eviction pending, due one retention
\* window after its creation, and that moment has not passed
EvictionPending ==
    \A k \in DOMAIN activeRooms :
        /\ k \in AllRoomIds
        /\ now <= activeRooms[k].createdAt + RETENTION_MS
        /\ \E i \in 1..Len(timers) :
              timers[i] = [roomId |-> k, due |-> activeRooms[k].createdAt + RETENTION_MS]

\* C5: every session is out of the registry (hence out of every list) once
\* the retention window after its creation has elapsed, closed or not: while
\* it is in the registry its eviction is pending and not overdue, and it
\* eventually leaves the registry.
C5_EvictedAfterRetention ==
    /\ []EvictionPending
    /\ \A id \in AllRoomIds :
          (id \in DOMAIN activeRooms) ~> (id \notin DOMAIN activeRooms)

\* a session nobody closed is gone, its window has elapsed, and no caller of
\* its organization is listed it
C5_Witness ==
    \E id \in DOMAIN hist :
        /\ hist[id].evicts = 1
        /\ hist[id].closes = 0
        /\ id \notin DOMAIN activeRooms
        /\ now >= id.t + RETENTION_MS
        /\ \A u \in Users : \A r \in ListRoute(activeRooms, u).body.rooms : r.id # id

\* the eviction of room id is still scheduled
TimerPending(pending, id) == \E i \in 1..Len(pending) : pending[i].roomId = id

\* C6: a successful close cancels the eviction timer of the session: once the
\* close has answered 200, no callback for that id is scheduled any more.
C6_CloseCancelsTimer ==
    [][LET user == last'.req.user
           roomId == last'.req.roomId
       IN  (ClosedBy(user, roomId) /\ last'.status = 200)
           => ~TimerPending(timers', roomId)]_vars

\* C7: when the host's close and the eviction of one session race, the first
\* removes the session and the second is harmless: the eviction callback
\* removes its own session if it is still there and nothing else, sends no
\* response and touches no other session; a close that comes after the
\* eviction is answered 404.
C7_CloseEvictionRaceHarmless ==
    [][/\ Evict
          => LET id == Head(timers).roomId
             IN  /\ DOMAIN activeRooms' = DOMAIN activeRooms \ {id}
                 /\ \A k \in DOMAIN activeRooms' : activeRooms'[k] = activeRooms[k]
                 /\ last' = last
       /\ LET user == last'.req.user
              roomId == last'.req.roomId
          IN  (/\ ClosedBy(user, roomId)
               /\ roomId \in DOMAIN hist
               /\ hist[roomId].evicts = hist[roomId].creates)
              => (last'.status = 404 /\ activeRooms' = activeRooms)]_vars

\* the timer of a session closed by its host has fired on the absent id, and
\* another session is still in the registry
C7_Witness ==
    \E id \in DOMAIN hist :
        /\ hist[id].creates = 1
        /\ hist[id].closes = 1
        /\ hist[id].evicts = 0
        /\ ~TimerPending(timers, id)
        /\ activeRooms # EmptyMap

\* every creation of a room is undone at most once, by a close or an eviction
RemovedAtMostOnce ==
    \A id \in DOMAIN hist : hist[id].closes + hist[id].evicts <= hist[id].creates

\* C8: the registry operations are atomic with respect to each other: while a
\* close handler is between its lookup and its delete no other operation
\* runs (there is at most one such handler, what it read is still what the
\* map holds, and the only steps are its own completion and the passing of
\* time), so of two host closes of one session one succeeds and the other
\* gets 404.
C8_RegistryOperationsAtomic ==
    /\ [](/\ BagCardinality(closers) <= 1
          /\ \A c \in BagToSet(closers) : c.room = CloseLookupRoom(activeRooms, c.roomId)
          /\ RemovedAtMostOnce)
    /\ [][closers # EmptyBag
            => \/ \E c \in BagToSet(closers) : CloseFinish(c)
               \/ UNCHANGED <<activeRooms, timers, env, closers, last, hist>>]_vars

\* the host's second close of a session created once, closed once and never
\* evicted has just been answered 404
C8_Witness ==
    /\ last.req.op = "close"
    /\ last.status = 404
    /\ last.req.roomId \in DOMAIN hist
    /\ hist[last.req.roomId].hostId = last.req.user.id
    /\ hist[last.req.roomId].creates = 1
    /\ hist[last.req.roomId].closes = 1
    /\ hist[last.req.roomId].evicts = 0
    /\ TimerPending(timers, last.req.roomId)

\* the step is the token handler run by `user` on `roomId`
TokenAskedBy(user, roomId) == last'.req.op = "token" /\ Token(user, roomId)

\* the signing configuration is complete
Configured(environ) == ~FalsyNumber(ParseInt(environ.appId)) /\ environ.secretLen # 0

\* C9: a caller whose plan is free or missing is answered 403 premium_required
\* by POST /token whatever the roomId (missing, unknown, live) and whatever
\* the configuration; no token is produced.
C9_TokenEntitlementFirst ==
    [][LET user == last'.req.user
           roomId == last'.req.roomId
       IN  (/\ last'.req.op = "token"
            /\ PremiumRequired(user)
            /\ TokenAskedBy(user, roomId))
           => /\ last'.status = 403
              /\ last'.body.error = "premium_required"
              /\ "token" \notin DOMAIN last'.body
              /\ ~last'.codec]_vars

\* a caller without a plan has just been refused a token for a live session
\* of their own organization, with the signing configuration complete
C9_Witness ==
    /\ last.req.op = "token"
    /\ last.status = 403
    /\ last.req.user.plan = NoPlan
    /\ last.req.roomId \in DOMAIN activeRooms
    /\ activeRooms[last.req.roomId].organization = last.req.user.organization
    /\ Configured(env)

\* C10: for an entitled caller naming a roomId, POST /token with the
\* application id or the secret unset answers 200 with the placeholder token
\* and demo = true, and does not call generateToken04.
C10_UnconfiguredDemoResponse ==
    [][LET user == last'.req.user
           roomId == last'.req.roomId
       IN  (/\ last'.req.op = "token"
            /\ roomId # NoRoomId
            /\ ~PremiumRequired(user)
            /\ (env.appId = NoEnv \/ env.secretLen = 0)
            /\ TokenAskedBy(user, roomId))
           => /\ last'.status = 200
              /\ ~last'.codec
              /\ DOMAIN last'.body = {"token", "userId", "userName", "roomId", "appId", "demo"}
              /\ last'.body.demo = TRUE
              /\ last'.body.token = "ZEGO_NOT_CONFIGURED"]_vars

\* an entitled caller has just got the demo response with the application id
\* set and only the secret missing
C10_Witness ==
    /\ last.req.op = "token"
    /\ last.status = 200
    /\ "demo" \in DOMAIN last.body
    /\ last.body.demo = TRUE
    /\ ~last.codec
    /\ env.appId = "912345"
    /\ env.secretLen = 0


\* the token handler has just answered with a signed token (not the demo
\* response, not an error)
\* a step that answers a token request: the request recorded in `last` is a
\* token request that the state before did not hold
TokenAnswered == last.req.op # "token" /\ last'.req.op = "token"

SignedTokenResponse(response) ==
    response.req.op = "token" /\ response.status = 200 /\ response.codec

\* C11: in a signed token response isHost is true exactly when the requested
\* id is in the registry with the caller as hostId: false for any other
\* caller, and false for an id that is unknown, closed or evicted.
C11_IsHostIffCurrentHost ==
    [][LET user == last'.req.user
           roomId == last'.req.roomId
       IN  (SignedTokenResponse(last') /\ TokenAnswered)
           => /\ last'.body.isHost \in BOOLEAN
              /\ last'.body.isHost
                    <=> (\E k \in DOMAIN activeRooms :
                            k = roomId /\ activeRooms[k].hostId = user.id)
              /\ roomId \notin DOMAIN activeRooms => ~last'.body.isHost]_vars

\* the host has just been told isHost = true for the live session it created
C11_Witness ==
    /\ SignedTokenResponse(last)
    /\ last.body.isHost = TRUE
    /\ last.req.roomId \in DOMAIN activeRooms
    /\ hist[last.req.roomId].hostId = last.req.user.id


\* the step is the create-room handler run by `user` with the recorded body
CreateAskedBy(user) ==
    last'.req.op = "create" /\ Create(user, last'.req.title, last'.req.type)

\* what POST /token answers the caller in the current state, for an id
TokenStatusFor(user, roomId) ==
    TokenRoute(activeRooms, env, user, roomId, now,
               CHOOSE n \in Nonces : TRUE, CHOOSE v \in IVs : TRUE).status

\* C12: create-room refuses exactly the callers the token route refuses for
\* their plan: a caller whose plan is free or missing is answered 403
\* premium_required whatever the title, no room is stored and no eviction is
\* scheduled.
C12_CreateEntitlementGate ==
    [][LET user == last'.req.user
       IN  CreateAskedBy(user)
           => /\ (last'.status = 403) <=> (TokenStatusFor(user, UnknownRoomId) = 403)
              /\ PremiumRequired(user)
                    => /\ last'.status = 403
                       /\ last'.body = [error |-> "premium_required"]
                       /\ activeRooms' = activeRooms
                       /\ timers' = timers]_vars

\* a caller without a plan has just been refused a create with a valid title;
\* the registry holds a room of another caller and nothing of theirs
C12_Witness ==
    /\ last.req.op = "create"
    /\ last.status = 403
    /\ last.req.user.plan = NoPlan
    /\ last.req.title # ""
    /\ activeRooms # EmptyMap
    /\ Len(timers) = Cardinality(DOMAIN activeRooms)
    /\ \A k \in DOMAIN activeRooms : activeRooms[k].hostId # last.req.user.id


\* C13: a create by an entitled caller with a missing or empty title is
\* answered 400 "title required" and leaves the registry and the timers as
\* they were; hence every room in the registry has a non-empty title.
C13_TitleRequired ==
    /\ [](\A k \in DOMAIN activeRooms : activeRooms[k].title # "")
    /\ [][LET user == last'.req.user
           IN  (/\ CreateAskedBy(user)
                /\ ~PremiumRequired(user)
                /\ last'.req.title = "")
               => /\ last'.status = 400
                  /\ last'.body = [error |-> "title required"]
                  /\ activeRooms' = activeRooms
                  /\ timers' = timers]_vars

\* an entitled caller has just been refused a create without a title, with a
\* room of theirs already in the registry
C13_Witness ==
    /\ last.req.op = "create"
    /\ last.status = 400
    /\ last.req.title = ""
    /\ ~PremiumRequired(last.req.user)
    /\ \E k \in DOMAIN activeRooms : activeRooms[k].hostId = last.req.user.id


\* C14: GET /list has no plan test: in every reachable state a caller of any
\* plan, free or missing included, is answered 200 with the live rooms of
\* their organization, and every list response sent was a 200.
C14_ListHasNoGate ==
    /\ \A user \in Users :
          LET r == ListRoute(activeRooms, user)
          IN  /\ r.status = 200
              /\ DOMAIN r.body = {"rooms"}
              /\ \A room \in r.body.rooms :
                    room.organization = user.organization /\ room.live
              /\ \A k \in DOMAIN activeRooms :
                    activeRooms[k].organization = user.organization
                    => activeRooms[k] \in r.body.rooms
    /\ last.req.op = "list" => (last.status = 200 /\ DOMAIN last.body = {"rooms"})

\* a caller on the free plan has just been listed a room of their organization
C14_Witness ==
    /\ last.req.op = "list"
    /\ last.req.user.plan = "free"
    /\ last.status = 200
    /\ last.body.rooms # {}
    /\ last.body.rooms = ListRoute(activeRooms, last.req.user).body.rooms


\* C15: every room in the registry has the hostId and the organization of the
\* caller whose create inserted it, and no step (token, list, close, another
\* create, eviction) changes the hostId or the organization stored under an
\* id that stays in the registry.
C15_HostAndOrganizationFixed ==
    /\ [](\A k \in DOMAIN activeRooms :
             /\ activeRooms[k].hostId = hist[k].hostId
             /\ activeRooms[k].organization = hist[k].organization)
    /\ [][\A k \in DOMAIN activeRooms \cap DOMAIN activeRooms' :
             /\ activeRooms'[k].hostId = activeRooms[k].hostId
             /\ activeRooms'[k].organization = activeRooms[k].organization]_vars


\* C16: a successful create makes an id that no earlier create made (whether
\* that room is live, closed or evicted), so it adds one entry to the
\* registry and leaves every entry already there as it was.
C16_RoomIdNeverReused ==
    [][LET user == last'.req.user
       IN  (CreateAskedBy(user) /\ last'.status = 200)
           => /\ last'.body.id \notin DOMAIN hist
              /\ DOMAIN activeRooms' = DOMAIN activeRooms \cup {last'.body.id}
              /\ \A k \in DOMAIN activeRooms : activeRooms'[k] = activeRooms[k]]_vars


\* the ids that are in the registry before the step and not after it
Removed == DOMAIN activeRooms \ DOMAIN activeRooms'

\* C17: an id leaves the registry only in a close answered 200 that names it
\* and is issued by the hostId stored under it, or when a timer scheduled for
\* that id fires, which is never before the retention window counted from the
\* room's createdAt has elapsed; a step removes at most one id.
C17_RemovedOnlyByHostOrOwnEviction ==
    [][/\ Cardinality(Removed) <= 1
       /\ \A k \in Removed :
             \/ /\ ClosedBy(last'.req.user, last'.req.roomId)
                /\ last'.req.roomId = k
                /\ last'.status = 200
                /\ last'.req.user.id = activeRooms[k].hostId
             \/ /\ Evict
                /\ Head(timers).roomId = k
                /\ now >= activeRooms[k].createdAt + RETENTION_MS]_vars

\* a room nobody closed has been evicted once its window had elapsed, while a
\* room created later, whose window has not elapsed, is still in the registry
C17_Witness ==
    \E id \in DOMAIN hist :
        /\ hist[id].creates = 1
        /\ hist[id].evicts = 1
        /\ hist[id].closes = 0
        /\ id \notin DOMAIN activeRooms
        /\ now >= id.t + RETENTION_MS
        /\ \E k \in DOMAIN activeRooms :
              now < activeRooms[k].createdAt + RETENTION_MS


\* a call of generateToken04 has returned or thrown
CodecCallDone == last.req.op = "generateToken04" /\ last.codec

\* the call threw at one of the three argument tests, before the clock, the
\* nonce and the IV were read and before the cipher was set up
FailedValidation(result) ==
    /\ result.threw
    /\ result.name = "Error"
    /\ ~result.ivDrawn
    /\ ~result.encrypted
    /\ "token" \notin DOMAIN result

\* C18: a call whose secret is absent or is not 32 bytes long fails at the
\* argument tests, before an IV is drawn and before the cipher is set up, and
\* returns no token.
C18_SecretLengthValidated ==
    (/\ CodecCallDone
     /\ (last.req.serverSecret = JsUndefined \/ last.req.serverSecret.bytes # 32))
    => FailedValidation(last.body)

\* the argument is a positive integer
PositiveInteger(v) == v.type = "number" /\ ~v.nan /\ ~v.half /\ v.n > 0

\* C19: a call whose appId is not a positive integer, or whose userId is not a
\* non-empty string, or whose lifetime is not a positive integer, fails at the
\* argument tests and returns no token.
C19_PreconditionsValidated ==
    (/\ CodecCallDone
     /\ \/ ~PositiveInteger(last.req.appId)
        \/ last.req.userId.type # "string"
        \/ Falsy(last.req.userId)
        \/ ~PositiveInteger(last.req.effectiveTimeInSeconds))
    => FailedValidation(last.body)


\* The verifier's side of the envelope: the value of a base64 character, the
\* bytes of a base64 text, and the integers of big-endian byte strings.
Base64Index ==
    [c \in {Base64Chars[i] : i \in 1..64} |-> (CHOOSE i \in 1..64 : Base64Chars[i] = c) - 1]

Base64Value(c) == IF c = Base64Pad THEN 0 ELSE Base64Index[c]

FromBase64(text) ==
    LET pads == Cardinality({j \in 1..Len(text) : text[j] = Base64Pad})
        n == 3 * (Len(text) \div 4) - pads
    IN  [i \in 1..n |->
            LET g == (i - 1) \div 3
                r == (i - 1) % 3
                s0 == Base64Value(text[4 * g + 1])
                s1 == Base64Value(text[4 * g + 2])
                s2 == Base64Value(text[4 * g + 3])
                s3 == Base64Value(text[4 * g + 4])
            IN  CASE r = 0 -> s0 * 4 + s1 \div 16
                  [] r = 1 -> (s1 % 16) * 16 + s2 \div 4
                  [] r = 2 -> (s2 % 4) * 64 + s3]

ReadUInt16BE(buf, offset) == buf[offset + 1] * 256 + buf[offset + 2]

\* a signed 64-bit big-endian integer whose magnitude is below 2^31
ReadInt64BE(buf) ==
    LET low(b) == ((b[5] * 256 + b[6]) * 256 + b[7]) * 256 + b[8]
    IN  IF buf[1] >= 128
        THEN -(low([i \in 1..8 |-> 255 - buf[i]])) - 1
        ELSE low(buf)

\* the upper bytes of an 8-byte integer are its sign extension
SignExtended(buf) ==
    \/ buf[5] < 128 /\ \A i \in 1..4 : buf[i] = 0
    \/ buf[5] >= 128 /\ \A i \in 1..4 : buf[i] = 255

\* C20: every token returned is "04" followed by the base64 of: 8 bytes with
\* createTime + lifetime as a big-endian signed integer, the IV length on 2
\* bytes big-endian, the IV, the cipher length on 2 bytes big-endian, the
\* cipher; each length is that of the bytes after it and the decoded length
\* is 8 + 2 + len(iv) + 2 + len(cipher).
C20_EnvelopeLayout ==
    (CodecCallDone /\ ~last.body.threw)
    => LET token == last.body.token
           text == SubSeq(token, 3, Len(token))
           buf == FromBase64(text)
           ivLen == ReadUInt16BE(buf, 8)
           iv == SubSeq(buf, 11, 10 + ivLen)
           cipherLen == ReadUInt16BE(buf, 10 + ivLen)
           cipher == SubSeq(buf, 13 + ivLen, Len(buf))
       IN  /\ SubSeq(token, 1, 2) = <<"0", "4">>
           /\ Len(text) % 4 = 0
           /\ ToBase64(buf) = text
           /\ Len(buf) >= 12
           /\ 12 + ivLen <= Len(buf)
           /\ SignExtended(buf)
           /\ ReadInt64BE(buf) = now \div 1000 + last.req.effectiveTimeInSeconds.n
           /\ ivLen = Len(iv)
           /\ iv \in IVs
           /\ cipherLen = Len(cipher)
           /\ cipherLen > 0 /\ cipherLen % AES_BLOCK = 0
           /\ Len(buf) = 8 + 2 + ivLen + 2 + cipherLen

\* a token has been returned for a call made after one day of uptime with a
\* negative lifetime and a payload
C20_Witness ==
    /\ CodecCallDone
    /\ ~last.body.threw
    /\ Len(last.body.token) > 2
    /\ last.req.effectiveTimeInSeconds = JsNumber(-60)
    /\ last.req.payload # JsUndefined
    /\ now = 86400123


\* The verifier's side of the cipher and of the claims: the plaintext of a
\* chained ciphertext, the plaintext without its padding, the place of a key
\* in a JSON text, the integer a JSON number is, and the claims of a token.
CbcDecrypt(cipher, key, iv) ==
    [i \in 1..Len(cipher) |->
        LET r == ((i - 1) % AES_BLOCK) + 1
            prev == IF i <= AES_BLOCK THEN iv[r] ELSE cipher[i - AES_BLOCK]
        IN  (cipher[i] + 512 - prev - KeyByte(key, r)) % 256]

Pkcs7Unpad(bytes) ==
    IF bytes = << >> \/ bytes[Len(bytes)] > Len(bytes) THEN << >>
    ELSE SubSeq(bytes, 1, Len(bytes) - bytes[Len(bytes)])

\* the first index at which pat starts in text, 0 when it does not occur
IndexOf(text, pat) ==
    LET at == {i \in 1..(Len(text) - Len(pat) + 1) : SubSeq(text, i, i + Len(pat) - 1) = pat}
    IN  IF at = {} THEN 0 ELSE CHOOSE i \in at : \A j \in at : i <= j

\* the text between two keys of a JSON object
JsonBetween(text, key, nextKey) ==
    LET a == IndexOf(text, key)
        b == IndexOf(text, nextKey)
    IN  IF a = 0 \/ b = 0 \/ b < a + Len(key) THEN << >>
        ELSE SubSeq(text, a + Len(key), b - 1)

IsDigits(text) == text # << >> /\ \A i \in 1..Len(text) : text[i] \in 48..57

RECURSIVE DigitsValue(_)
DigitsValue(text) ==
    IF text = << >> THEN 0
    ELSE 10 * DigitsValue(SubSeq(text, 1, Len(text) - 1)) + (text[Len(text)] - 48)

\* JSON.parse of a number text: an integer, or no integer
JsonInteger(text) ==
    IF IsDigits(text) THEN [integer |-> TRUE, n |-> DigitsValue(text)]
    ELSE IF text # << >> /\ text[1] = 45 /\ IsDigits(Tail(text))
    THEN [integer |-> TRUE, n |-> -DigitsValue(Tail(text))]
    ELSE [integer |-> FALSE, n |-> 0]

\* what a holder of the key reads in a token: the cleartext expiry, the IV,
\* the cipher, and the ctime and expire fields of the decrypted claims
OpenToken(token, key) ==
    LET buf == FromBase64(SubSeq(token, 3, Len(token)))
        wellFormed == Len(buf) >= 12 /\ 12 + ReadUInt16BE(buf, 8) <= Len(buf)
        ivLen == IF wellFormed THEN ReadUInt16BE(buf, 8) ELSE 0
        iv == IF wellFormed THEN SubSeq(buf, 11, 10 + ivLen) ELSE << >>
        cipher == IF wellFormed THEN SubSeq(buf, 13 + ivLen, Len(buf)) ELSE << >>
        text == IF Len(iv) = AES_BLOCK THEN Pkcs7Unpad(CbcDecrypt(cipher, key, iv)) ELSE << >>
    IN  [wellFormed |-> wellFormed,
         expiry |-> IF wellFormed THEN ReadInt64BE(buf) ELSE 0,
         iv |-> iv,
         cipher |-> cipher,
         claims |-> text,
         ctime |-> JsonInteger(JsonBetween(text, <<44, 34, 99, 116, 105, 109, 101, 34, 58>>, <<44, 34, 101, 120, 112, 105, 114, 101, 34, 58>>)),
         expire |-> JsonInteger(JsonBetween(text, <<44, 34, 101, 120, 112, 105, 114, 101, 34, 58>>, <<44, 34, 112, 97, 121, 108, 111, 97, 100, 34, 58, 34>>))]

\* the token of the last call or response, opened with the key it was sealed
\* with
IssuedByCodec == CodecCallDone /\ ~last.body.threw
IssuedByRoute == SignedTokenResponse(last)
LastToken ==
    IF IssuedByCodec THEN OpenToken(last.body.token, last.req.serverSecret)
    ELSE OpenToken(last.body.token, JsSecret(env.secretLen, env.secretLen))

\* C21: in every token returned the expiry at the front of the envelope is
\* the expire field of the encrypted claims, and both are the ctime of the
\* claims plus the lifetime of the call; ctime is the clock in seconds.  For a
\* token of POST /token the lifetime is 3600.
C21_ExpiryCopiesAgree ==
    /\ IssuedByCodec
          => LET t == LastToken
             IN  /\ t.wellFormed /\ t.ctime.integer /\ t.expire.integer
                 /\ t.expiry = t.expire.n
                 /\ t.ctime.n = now \div 1000
                 /\ t.expire.n = t.ctime.n + last.req.effectiveTimeInSeconds.n
    /\ IssuedByRoute
          => LET t == LastToken
             IN  /\ t.wellFormed /\ t.ctime.integer /\ t.expire.integer
                 /\ t.expiry = t.expire.n
                 /\ t.expire.n = t.ctime.n + 3600

\* a token has been returned for a call with a lifetime of one second made
\* after a day of uptime
C21_Witness ==
    /\ IssuedByCodec
    /\ last.req.appId = JsNumber(912345)
    /\ last.req.effectiveTimeInSeconds = JsNumber(1)
    /\ now = 86400123
    /\ LastToken.expiry = 86401
    /\ LastToken.expire.n = 86401


\* C22: the claims sealed into every token returned have an expire field
\* that is not before their ctime field.
C22_ExpiryNotBeforeCreation ==
    IssuedByCodec
    => LET t == LastToken
       IN  /\ t.ctime.integer
           /\ t.expire.integer
           /\ t.expire.n >= t.ctime.n


\* both of two successive calls have returned a token; the tokens, opened
IssuedTwice == IssuedByCodec /\ "prev" \in DOMAIN last /\ ~last.prev.threw
FirstToken == OpenToken(last.prev.token, last.req.serverSecret)

\* an IV of makeRandomIv: 16 characters, each of 0-9 or a-z
WellFormedIv(iv) ==
    /\ Len(iv) = 16
    /\ \A i \in 1..Len(iv) : iv[i] \in (48..57) \cup (97..122)

TokenOutcome(response) ==
    CASE response.status = 403 -> "Forbidden"
      [] response.status = 400 -> "BadRequest"
      [] response.status = 500 -> "InternalError"
      [] response.status = 200 /\ ~response.codec -> "Demo"
      [] response.status = 200 /\ response.codec -> "Issued"
      [] OTHER -> "none"

\* C24: whatever its outcome, a POST /token step leaves the registry, the
\* pending eviction timers, the handlers in flight, the environment and the
\* clock as they were; the token and its claims are in the response only.
C24_TokenRouteKeepsNothing ==
    [][TokenAnswered
       => /\ TokenOutcome(last') \in {"Forbidden", "BadRequest", "Demo", "Issued", "InternalError"}
          /\ activeRooms' = activeRooms
          /\ timers' = timers
          /\ closers' = closers
          /\ env' = env
          /\ now' = now]_vars

\* a token has just been issued for a live session whose eviction timer is
\* pending
C24_Witness ==
    /\ SignedTokenResponse(last)
    /\ last.req.roomId \in DOMAIN activeRooms
    /\ \E i \in 1..Len(timers) : timers[i].roomId = last.req.roomId


\* the session kinds of the specification
SessionKinds == {"audio", "video"}

\* C25: every session in the registry has a kind in the closed set, and
\* a create that names no kind is answered with a session of kind audio.
C25_KindInClosedSet ==
    /\ \A k \in DOMAIN activeRooms : activeRooms[k].type \in SessionKinds
    /\ (last.req.op = "create" /\ last.status = 200 /\ last.req.type = NoType)
          => last.body.type = "audio"


\* the environment holds an application id that parses to a non-zero number
\* and a secret of 32 characters
SigningConfigured(environ) == Configured(environ) /\ environ.secretLen = SECRET_LEN

\* C26: with the signing configuration in place, POST /token by an entitled
\* caller naming any id answers 200 with a token of "04" format whose first
\* eight bytes are the expiry an hour later, whether or not the id is in the registry and whatever the
\* organization of the session; isHost is false unless the caller is the
\* host of a stored session.
C26_TokenWithoutRegistryCheck ==
    [][LET user == last'.req.user
           roomId == last'.req.roomId
       IN  (/\ TokenAnswered
            /\ ~PremiumRequired(user)
            /\ roomId # NoRoomId
            /\ SigningConfigured(env))
           => /\ TokenOutcome(last') = "Issued"
              /\ "demo" \notin DOMAIN last'.body
              /\ LET token == last'.body.token
                     head == FromBase64(SubSeq(token, 3, 14))
                 IN  /\ SubSeq(token, 1, 2) = <<"0", "4">>
                     /\ Len(token) > 14
                     /\ SignExtended(head)
                     /\ ReadInt64BE(head) = now \div 1000 + TOKEN_LIFETIME_S
              /\ roomId \notin DOMAIN activeRooms => last'.body.isHost = FALSE
              /\ (roomId \in DOMAIN activeRooms
                    /\ activeRooms[roomId].organization # user.organization)
                  => last'.body.isHost = FALSE]_vars

\* a caller of one organization holds a token, with isHost false, for a
\* live session of another organization
C26_Witness ==
    /\ SignedTokenResponse(last)
    /\ last.req.roomId \in DOMAIN activeRooms
    /\ activeRooms[last.req.roomId].organization # last.req.user.organization
    /\ activeRooms[last.req.roomId].live
    /\ last.body.isHost = FALSE
    /\ Len(last.body.token) > 2

====
